---------------------------- MODULE Spec2Model ----------------------------
(***************************************************************************)
(* The release workflow of the repository: release.py (decomposed into     *)
(* named steps) and create_new_release.py (monolithic).  One run of one of *)
(* the two scripts against a local repository, a remote and an operator    *)
(* (Spec, LiveSpec), or such a run followed by a run of the other script   *)
(* from the same start and against the same environment (SpecPair).        *)
(*                                                                         *)
(* Strings are sequences of tokens (each token a TLA+ string), so that     *)
(* concatenation, strip() and lower() are computed, not assumed.           *)
(***************************************************************************)
EXTENDS Integers, Sequences, FiniteSets, TLC

\* ------------------------------------------------------------------ bounds
MaxMajor == 0
MaxMinor == 9
MaxPatch == 1
MaxReads == 2

\* ------------------------------------------------------------- the scripts
Scripts == {"release.py", "create_new_release.py"}

Manifest == "package.json"
Lockfile == "package-lock.json"
OtherFile == "README.md"
Files == {Manifest, Lockfile, OtherFile}
\* the order in which git lists paths
FileOrder == <<"README.md", "package-lock.json", "package.json">>

\* ------------------------------------------------------------ pure helpers
Digits == <<"0", "1", "2", "3", "4", "5", "6", "7", "8", "9">>

RECURSIVE NumStr(_)
\* str(n) of a natural number, in decimal
NumStr(n) ==
    IF n < 10 THEN <<Digits[n + 1]>>
    ELSE NumStr(n \div 10) \o <<Digits[(n % 10) + 1]>>

\* the manifest's "version" value MAJOR.MINOR.PATCH as json.load returns it
VersionString(v) ==
    NumStr(v[1]) \o <<".">> \o NumStr(v[2]) \o <<".">> \o NumStr(v[3])

\* get_current_version(): the 'version' key of package.json in the working tree
get_current_version(r) == VersionString(r.worktree[Manifest])

\* f'v{new_version}'
NpmTag(version) == <<"v">> \o version

\* the tag named as npm names it
ReleaseTagName_NoPrefix(version) == <<"v">> \o version

\* f'release/v{version}'
ReleaseTagName(version) == <<"release/v">> \o version

\* npm version minor: MINOR + 1, PATCH reset to 0
BumpMinor(v) == <<v[1], v[2] + 1, 0>>

Whitespace == {" ", "\n"}

RECURSIVE LStrip(_)
LStrip(s) ==
    IF s # <<>> /\ Head(s) \in Whitespace THEN LStrip(Tail(s)) ELSE s

RECURSIVE RStrip(_)
RStrip(s) ==
    IF s # <<>> /\ s[Len(s)] \in Whitespace
    THEN RStrip(SubSeq(s, 1, Len(s) - 1)) ELSE s

\* str.strip()
Strip(s) == RStrip(LStrip(s))

LowerOf(c) ==
    CASE c = "Y" -> "y"
      [] c = "E" -> "e"
      [] c = "S" -> "s"
      [] c = "N" -> "n"
      [] c = "O" -> "o"
      [] OTHER -> c

\* str.lower()
Lower(s) == [i \in 1..Len(s) |-> LowerOf(s[i])]

Yes == <<"y", "e", "s">>
No == <<"n", "o">>

\* the response keeps its letter case
Normalize_NoLower(line) == Strip(line)

\* input(...).strip().lower()
Normalize(line) == Lower(Strip(line))

\* ---------------------------------------------------------------- the state
VARIABLES
    script,       \* which of the two scripts runs
    pc,           \* position of main()
    repo,         \* local repository: commits, head, worktree, tags
    remote,       \* remote repository: branch, tags
    pre,          \* the repository and remote before the run (never changes)
    stdout,       \* result.stdout of the last query command in main()
    new_version,  \* local variable new_version
    npm_tag,      \* local variable npm_tag
    tag_name,     \* local variable tag_name / release_tag
    response,     \* local variable response
    inputs,       \* the lines input() has returned so far
    cmds,         \* the external commands invoked, with their exit codes
    marks,        \* for each command of cmds, the last line printed before it
    out,          \* the lines printed
    first,        \* <<>> in a run; in a run of the other script that follows
                  \* one from the same start, what that first run did
    exit_code     \* process exit status, -1 while running

vars == <<script, pc, repo, remote, pre, stdout, new_version, npm_tag,
          tag_name, response, inputs, cmds, marks, out, first, exit_code>>

\* ------------------------------------------------------- the external tools
HeadTree(r) == r.commits[r.head]

Dirty(r, f) == r.worktree[f] # HeadTree(r)[f]

Clean(r) == \A f \in Files : ~Dirty(r, f)

RECURSIVE PorcelainFrom(_, _)
PorcelainFrom(r, i) ==
    IF i > Len(FileOrder) THEN <<>>
    ELSE (IF Dirty(r, FileOrder[i])
          THEN <<" ", "M", " ", FileOrder[i], "\n">> ELSE <<>>)
         \o PorcelainFrom(r, i + 1)

\* what `git status --porcelain` writes to its standard output
Porcelain(r) == PorcelainFrom(r, 1)

\* `npm version minor -m ...`: new manifest and lockfile, one commit, the
\* native tag; touch is whether the tool also changed another file
NpmVersionMinor(r, touch) ==
    LET nv == BumpMinor(r.worktree[Manifest])
        tree == [f \in Files |->
                    IF f \in {Manifest, Lockfile} THEN nv
                    ELSE IF touch THEN <<r.worktree[f][1] + 1>>
                    ELSE r.worktree[f]]
    IN [commits |-> SubSeq(r.commits, 1, r.head) \o <<tree>>,
        head |-> r.head + 1,
        worktree |-> tree,
        tags |-> r.tags \cup {NpmTag(VersionString(nv))}]

\* `git tag -d <name>`
GitTagDelete(r, name) == [r EXCEPT !.tags = @ \ {name}]

\* `git tag <name>`
GitTag(r, name) == [r EXCEPT !.tags = @ \cup {name}]

\* `git reset --hard HEAD~1`
GitResetHead1_Hard(r) ==
    [r EXCEPT !.head = @ - 1, !.worktree = r.commits[r.head - 1]]

\* `git reset HEAD~1` (mixed): the branch moves back, the working tree stays
GitResetHead1(r) == [r EXCEPT !.head = @ - 1]

\* `git restore <file>`: the file as of the index, which is HEAD's
GitRestore(r, f) == [r EXCEPT !.worktree[f] = HeadTree(r)[f]]

\* `git push`: the remote branch becomes the local branch
GitPush(rm, r) == [rm EXCEPT !.branch = SubSeq(r.commits, 1, r.head)]

\* `git push origin <tag>`
GitPushTag(rm, name) == [rm EXCEPT !.tags = @ \cup {name}]

\* whether the tool can exit 0 in this repository: npm version refuses a
\* working directory that is not clean, git refuses to delete a tag that
\* does not exist, to create one that exists, to reset past the root commit
CanSucceed(op, arg, r) ==
    CASE op = "npm version minor" -> Clean(r)
      [] op = "git tag -d" -> arg \in r.tags
      [] op = "git tag" -> arg \notin r.tags
      [] op = "git reset HEAD~1" -> r.head > 1
      [] OTHER -> TRUE

\* the exit codes a command can end with
ExitCodes(op, arg, r) == IF CanSucceed(op, arg, r) THEN {0, 1} ELSE {1}

\* ------------------------------------------------------------ the commands
RevParse == "git rev-parse --abbrev-ref HEAD"
Status == "git status --porcelain"
NpmVersion == "npm version minor"
TagDelete == "git tag -d"
TagCreate == "git tag"
Reset == "git reset HEAD~1"
Restore == "git restore"
Push == "git push"
PushOrigin == "git push origin"

Decomposed == script = "release.py"

\* whether a non-zero exit code of the command ends the run: run_command
\* exits, subprocess.run(check=True) raises, plain subprocess.run goes on
Fatal(op) ==
    IF Decomposed THEN op \notin {RevParse, Status} ELSE TRUE

\* run_command's print(f"Running: {' '.join(cmd)}")
RunningLine(op, arg) ==
    IF Decomposed /\ op \notin {RevParse, Status}
    THEN << <<"Running: ", op>> \o (IF arg = <<>> THEN <<>> ELSE <<" ">> \o arg) >>
    ELSE <<>>

\* run_command's print(f"Error: Command failed with exit code ...")
ErrorLine(op) ==
    IF Decomposed /\ op \notin {RevParse, Status}
    THEN << <<"Error: Command failed with exit code ">> >>
    ELSE <<>>

\* the exit code is not looked at
AfterCommand_Unchecked(op, rc, next) == next

\* a failed command starts the rollback
AfterCommand_RollbackOnFailure(op, rc, next) ==
    IF rc # 0 /\ Fatal(op) THEN "reset" ELSE next

\* where main() goes after a command: on, or out with status 1
AfterCommand(op, rc, next) ==
    IF rc # 0 /\ Fatal(op) THEN "done" ELSE next

\* One external command whose failure ends the run: run_command(cmd) of
\* release.py, subprocess.run(cmd, check=True) of create_new_release.py.
\* before and after are the lines printed around it, r2 and rm2 the
\* repository and the remote once the command has succeeded.
LastLine(lines) == lines[Len(lines)]

run_command(before, op, arg, r2, rm2, after, next) ==
    \E rc \in ExitCodes(op, arg, repo) :
        /\ cmds' = Append(cmds, [op |-> op, arg |-> arg, rc |-> rc])
        /\ marks' = Append(marks, LastLine(out \o before \o RunningLine(op, arg)))
        /\ pc' = AfterCommand(op, rc, next)
        /\ exit_code' = IF pc' = "done" THEN (IF rc = 0 THEN 0 ELSE 1)
                        ELSE exit_code
        /\ IF rc = 0
           THEN /\ repo' = r2
                /\ remote' = rm2
                /\ out' = out \o before \o RunningLine(op, arg) \o after
           ELSE /\ UNCHANGED <<repo, remote>>
                /\ out' = out \o before \o RunningLine(op, arg) \o ErrorLine(op)

\* ------------------------------------------------------------------- Init
\* the minor numbers a run starts from: the least one, and the two around
\* the step from one digit to two
Minors == {0, MaxMinor - 1, MaxMinor}

Versions == (0..MaxMajor) \X Minors \X (0..MaxPatch)

\* the working trees a run can start from: the committed tree, or that tree
\* with one file edited and not committed
Edited(tree, f) ==
    IF f = OtherFile THEN [tree EXCEPT ![f] = <<tree[f][1] + 1>>]
    ELSE [tree EXCEPT ![f] = <<@[1], @[2], @[3] + 1>>]

StartTrees(tree) == {tree} \cup {Edited(tree, f) : f \in Files}

\* the tags a repository can hold before the run: release tags of the
\* current version and, left by an earlier run, of the next one; the latter
\* was never pushed, a tag being pushed only after its commit
StartTags(v) ==
    SUBSET {ReleaseTagName(VersionString(v)),
            ReleaseTagName(VersionString(BumpMinor(v)))}

Init ==
    /\ script \in Scripts
    /\ pc = "branch"
    /\ \E v \in Versions :
         LET tree == [f \in Files |-> IF f = OtherFile THEN <<0>> ELSE v]
         IN \E wt \in StartTrees(tree), tg \in StartTags(v) :
              /\ repo = [commits |-> <<tree>>, head |-> 1,
                         worktree |-> wt, tags |-> tg]
              /\ remote = [branch |-> <<tree>>,
                           tags |-> tg \ {ReleaseTagName(VersionString(BumpMinor(v)))}]
    /\ pre = [repo |-> repo, remote |-> remote]
    /\ stdout = <<>>
    /\ new_version = <<>>
    /\ npm_tag = <<>>
    /\ tag_name = <<>>
    /\ response = <<>>
    /\ inputs = <<>>
    /\ cmds = <<>>
    /\ marks = <<>>
    /\ first = <<>>
    /\ out = << <<"VSCode Array Inspector - Release Script">> >>
    /\ exit_code = -1

\* ----------------------------------------------------------------- main()
\* the test negated
Uncommitted_Negated(text) == Strip(text) = <<>>

\* the preflight test `if result.stdout.strip():`
Uncommitted(text) == Strip(text) # <<>>

\* git rev-parse --abbrev-ref HEAD; its output is only printed
QueryBranch ==
    /\ pc = "branch"
    /\ \E rc \in ExitCodes(RevParse, <<>>, repo) :
         /\ cmds' = Append(cmds, [op |-> RevParse, arg |-> <<>>, rc |-> rc])
         /\ marks' = Append(marks, LastLine(out))
         /\ stdout' = IF rc = 0 THEN <<"main", "\n">> ELSE <<>>
         /\ pc' = AfterCommand(RevParse, rc, "status")
         /\ IF pc' = "done"
            THEN exit_code' = 1 /\ out' = out
            ELSE /\ exit_code' = exit_code
                 /\ out' = Append(out, <<"Current branch: ">> \o Strip(stdout'))
    /\ UNCHANGED <<script, first, repo, remote, pre, new_version, npm_tag, tag_name,
                   response, inputs>>

\* git status --porcelain, then the test for uncommitted changes
CheckUncommitted ==
    /\ pc = "status"
    /\ \E rc \in ExitCodes(Status, <<>>, repo) :
         /\ cmds' = Append(cmds, [op |-> Status, arg |-> <<>>, rc |-> rc])
         /\ marks' = Append(marks, LastLine(out))
         /\ stdout' = IF rc = 0 THEN Porcelain(repo) ELSE <<>>
         /\ IF AfterCommand(Status, rc, "test") = "done"
            THEN pc' = "done" /\ exit_code' = 1 /\ out' = out
            ELSE IF Uncommitted(stdout')
            THEN /\ pc' = "done"
                 /\ exit_code' = 1
                 /\ out' = Append(out, <<"Error: You have uncommitted changes.">>)
            ELSE /\ pc' = "bump"
                 /\ exit_code' = exit_code
                 /\ out' = out
    /\ UNCHANGED <<script, first, repo, remote, pre, new_version, npm_tag, tag_name,
                   response, inputs>>

\* npm version minor, then the new version read back from package.json
BumpVersion ==
    /\ pc = "bump"
    /\ \E touch \in BOOLEAN :
         LET r2 == NpmVersionMinor(repo, touch)
         IN /\ run_command(<< <<"=== Bumping minor version ===">> >>,
                           NpmVersion, <<>>, r2, remote, <<>>, "delete_npm_tag")
            /\ IF pc' = "delete_npm_tag"
               THEN /\ new_version' = get_current_version(repo')
                    /\ npm_tag' = NpmTag(new_version')
                    /\ tag_name' = IF Decomposed THEN tag_name
                                   ELSE ReleaseTagName(new_version')
               ELSE UNCHANGED <<new_version, npm_tag, tag_name>>
    /\ UNCHANGED <<script, first, pre, stdout, response, inputs>>

\* the native tag is left in place
DeleteNpmTag_Skipped ==
    /\ pc = "delete_npm_tag"
    /\ pc' = "create_tag"
    /\ out' = Append(out, <<"Version bumped to: ">> \o new_version)
    /\ UNCHANGED <<script, first, repo, remote, pre, stdout, new_version, npm_tag,
                   tag_name, response, inputs, cmds, marks, exit_code>>

\* git tag -d v{new_version}
DeleteNpmTag ==
    /\ pc = "delete_npm_tag"
    /\ run_command(
         (IF Decomposed THEN <<>>
          ELSE << <<"Version bumped to: ">> \o new_version >>)
         \o << <<"Removing npm-created tag: ">> \o npm_tag >>,
         TagDelete, npm_tag, GitTagDelete(repo, npm_tag), remote,
         (IF Decomposed THEN << <<"Version bumped to: ">> \o new_version >>
          ELSE <<>>),
         "create_tag")
    /\ UNCHANGED <<script, first, pre, stdout, new_version, npm_tag, tag_name,
                   response, inputs>>

\* git tag release/v{new_version}
CreateReleaseTag ==
    /\ pc = "create_tag"
    /\ tag_name' = ReleaseTagName(new_version)
    /\ run_command(
         << (IF Decomposed THEN <<"=== Creating release tag: ">>
             ELSE <<"Creating release tag: ">>) \o tag_name' >>,
         TagCreate, tag_name', GitTag(repo, tag_name'), remote,
         << <<"Created tag: ">> \o tag_name' >>,
         "confirm")
    /\ UNCHANGED <<script, first, pre, stdout, new_version, npm_tag, response, inputs>>

\* ------------------------------------------------------- Confirmation Gate
\* the lines the operator may type
Lines ==
    { <<"y", "e", "s">>, <<"Y", "E", "S">>, <<" ", "Y", "e", "s", " ">>,
      <<"n", "o">>, <<"N", "o">>, <<"n", "o", " ">>,
      <<>>, <<"y">>, <<"n">>, <<" ">>,
      <<"y", "e", "s", " ", "p", "l", "e", "a", "s", "e">> }

\* anything but 'no' confirms
AfterResponse_NotNoIsYes(resp) ==
    IF resp = No THEN "reset" ELSE "push_commit"

\* the first letter decides
AfterResponse_FirstLetter(resp) ==
    IF resp # <<>> /\ resp[1] = "y" THEN "push_commit"
    ELSE IF resp # <<>> /\ resp[1] = "n" THEN "reset"
    ELSE "confirm"

\* 'yes' asks again
AfterResponse_YesReprompts(resp) ==
    IF resp = No THEN "reset" ELSE "confirm"

\* where the loop `while True:` goes with the response
AfterResponse(resp) ==
    IF resp = Yes THEN "push_commit"
    ELSE IF resp = No THEN "reset"
    ELSE "confirm"

Summary ==
    IF inputs = <<>>
    THEN << <<"Ready to release version ">> \o new_version,
            <<"Tag: ">> \o tag_name,
            <<"Are you sure you want to proceed?">> >>
    ELSE <<>>

\* one round of the loop: input(...) returns a line
ReadResponse ==
    /\ pc = "confirm"
    /\ Len(inputs) < MaxReads
    /\ \E line \in Lines :
         /\ inputs' = Append(inputs, line)
         /\ response' = Normalize(line)
         /\ pc' = AfterResponse(response')
         /\ out' = out \o Summary
                   \o << <<"Type 'yes' to confirm, 'no' to cancel: ">> >>
                   \o (CASE pc' = "confirm" -> << <<"Please type 'yes' or 'no'">> >>
                         [] pc' = "reset" ->
                              << <<"Release cancelled by user.">>,
                                 <<"Rolling back changes...">> >>
                         [] OTHER -> <<>>)
    /\ UNCHANGED <<script, first, repo, remote, pre, stdout, new_version, npm_tag,
                   tag_name, cmds, marks, exit_code>>

\* the end of input counts as the answer 'no'
ReadAborted_RollsBack ==
    /\ pc = "confirm"
    /\ pc' = "reset"
    /\ out' = out \o Summary
              \o << <<"Type 'yes' to confirm, 'no' to cancel: ">> >>
    /\ UNCHANGED <<script, first, repo, remote, pre, stdout, new_version, npm_tag,
                   tag_name, response, inputs, cmds, marks, exit_code>>

\* input(...) raises EOFError or KeyboardInterrupt, which nothing catches
ReadAborted ==
    /\ pc = "confirm"
    /\ pc' = "done"
    /\ exit_code' = 1
    /\ out' = out \o Summary
              \o << <<"Type 'yes' to confirm, 'no' to cancel: ">> >>
    /\ UNCHANGED <<script, first, repo, remote, pre, stdout, new_version, npm_tag,
                   tag_name, response, inputs, cmds, marks>>

\* ---------------------------------------------------------------- Rollback
\* the release tag is left in place
ResetCommit_SkipsTagDelete ==
    /\ pc = "reset"
    /\ run_command(<<>>, Reset, <<>>, GitResetHead1(repo), remote, <<>>,
                   "restore_manifest")
    /\ UNCHANGED <<script, first, pre, stdout, new_version, npm_tag, tag_name,
                   response, inputs>>

\* git reset HEAD~1
ResetCommit ==
    /\ pc = "reset"
    /\ run_command(<<>>, Reset, <<>>, GitResetHead1(repo), remote, <<>>,
                   "delete_release_tag")
    /\ UNCHANGED <<script, first, pre, stdout, new_version, npm_tag, tag_name,
                   response, inputs>>

\* git tag -d release/v{new_version}
DeleteReleaseTag ==
    /\ pc = "delete_release_tag"
    /\ run_command(<<>>, TagDelete, tag_name, GitTagDelete(repo, tag_name),
                   remote, <<>>, "restore_manifest")
    /\ UNCHANGED <<script, first, pre, stdout, new_version, npm_tag, tag_name,
                   response, inputs>>

\* the lockfile restored in place of the manifest
RestoreManifest_Lockfile ==
    /\ pc = "restore_manifest"
    /\ run_command(<<>>, Restore, <<Lockfile>>, GitRestore(repo, Lockfile),
                   remote, <<>>, "restore_lockfile")
    /\ UNCHANGED <<script, first, pre, stdout, new_version, npm_tag, tag_name,
                   response, inputs>>

\* git restore package.json
RestoreManifest ==
    /\ pc = "restore_manifest"
    /\ run_command(<<>>, Restore, <<Manifest>>, GitRestore(repo, Manifest),
                   remote, <<>>, "restore_lockfile")
    /\ UNCHANGED <<script, first, pre, stdout, new_version, npm_tag, tag_name,
                   response, inputs>>

\* git restore package-lock.json, then sys.exit(0)
RestoreLockfile ==
    /\ pc = "restore_lockfile"
    /\ run_command(<<>>, Restore, <<Lockfile>>, GitRestore(repo, Lockfile),
                   remote, << <<"Changes rolled back.">> >>, "done")
    /\ UNCHANGED <<script, first, pre, stdout, new_version, npm_tag, tag_name,
                   response, inputs>>

\* --------------------------------------------------------------- Publisher
\* the tag is pushed where the branch should be
PushCommit_TagFirst ==
    /\ pc = "push_commit"
    /\ run_command(<< <<"=== Pushing to remote ===">> >>,
                   PushOrigin, tag_name, repo, GitPushTag(remote, tag_name),
                   <<>>, "push_tag")
    /\ UNCHANGED <<script, first, pre, stdout, new_version, npm_tag, tag_name,
                   response, inputs>>

\* git push
PushCommit ==
    /\ pc = "push_commit"
    /\ run_command(
         << <<"=== Pushing to remote ===">> >>
         \o (IF Decomposed THEN << <<"Pushing commit...">> >> ELSE <<>>),
         Push, <<>>, repo, GitPush(remote, repo), <<>>, "push_tag")
    /\ UNCHANGED <<script, first, pre, stdout, new_version, npm_tag, tag_name,
                   response, inputs>>

\* git push origin release/v{new_version}
PushTag ==
    /\ pc = "push_tag"
    /\ run_command(
         (IF Decomposed THEN << <<"Pushing tag ">> \o tag_name >> ELSE <<>>),
         PushOrigin, tag_name, repo, GitPushTag(remote, tag_name),
         << <<"Release tag pushed successfully!">> >>, "done")
    /\ UNCHANGED <<script, first, pre, stdout, new_version, npm_tag, tag_name,
                   response, inputs>>

Next ==
    \/ QueryBranch
    \/ CheckUncommitted
    \/ BumpVersion
    \/ DeleteNpmTag
    \/ CreateReleaseTag
    \/ ReadResponse
    \/ ReadAborted
    \/ ResetCommit
    \/ DeleteReleaseTag
    \/ RestoreManifest
    \/ RestoreLockfile
    \/ PushCommit
    \/ PushTag

Spec == Init /\ [][Next]_vars

\* the steps that wait for an external command, all of them subprocess.run
\* calls without a timeout on tools that return
CommandStep ==
    \/ QueryBranch
    \/ CheckUncommitted
    \/ BumpVersion
    \/ DeleteNpmTag
    \/ CreateReleaseTag
    \/ ResetCommit
    \/ DeleteReleaseTag
    \/ RestoreManifest
    \/ RestoreLockfile
    \/ PushCommit
    \/ PushTag

\* every external command returns; input() may block for ever
LiveSpec == Spec /\ WF_vars(CommandStep)

\* ============================================================== the claims
\* what the log of commands says
Invoked(op) == \E i \in DOMAIN cmds : cmds[i].op = op

Succeeded(op, arg) ==
    \E i \in DOMAIN cmds : cmds[i] = [op |-> op, arg |-> arg, rc |-> 0]

Failed(op) == \E i \in DOMAIN cmds : cmds[i].op = op /\ cmds[i].rc # 0

Exited == pc = "done"

\* the version the bump produces from the manifest the run started with
NextVersion == VersionString(BumpMinor(pre.repo.worktree[Manifest]))

Published == Succeeded(Push, <<>>) /\ Succeeded(PushOrigin, tag_name)

RolledBack ==
    /\ Succeeded(Reset, <<>>)
    /\ Succeeded(TagDelete, tag_name)
    /\ Succeeded(Restore, <<Manifest>>)
    /\ Succeeded(Restore, <<Lockfile>>)

\* C1: no push command is invoked, and the remote does not change, before
\* the operator's input has been read as 'yes'.
C1_NoPushBeforeYes ==
    (Invoked(Push) \/ Invoked(PushOrigin) \/ remote # pre.remote)
        => (response = Yes /\ inputs # <<>>)

C1_Witness ==
    /\ Exited
    /\ Published
    /\ Len(inputs) = 2
    /\ Lower(inputs[1]) \notin {Yes, No}

\* C2: if the working-tree status query returns a non-empty status, the run
\* has ended with a non-zero exit status, no command other than the two
\* queries was invoked, and the repository and the remote are as before.
C2_DirtyTreeStopsRun ==
    (Invoked(Status) /\ stdout # <<>>)
        => /\ Exited
           /\ exit_code = 1
           /\ \A i \in DOMAIN cmds : cmds[i].op \in {RevParse, Status}
           /\ repo = pre.repo
           /\ remote = pre.remote
           /\ inputs = <<>>

C2_Witness ==
    /\ Invoked(Status)
    /\ stdout # <<>>
    /\ Exited
    /\ Dirty(repo, Manifest)

\* the run is over, the operator answered 'no', and every command invoked
\* after the preflight (bump, tag remap, rollback) succeeded
CancelledCleanly ==
    /\ Exited
    /\ response = No
    /\ Invoked(NpmVersion)
    /\ \A i \in DOMAIN cmds :
         cmds[i].op \notin {RevParse, Status} => cmds[i].rc = 0

\* C3: after a run in which the bump and the tag remap succeeded, the
\* operator answered 'no' and all rollback commands succeeded, the
\* manifest's version equals its value before the run (in the working tree
\* and at HEAD) and the release tag of the new version does not exist.
C3_RollbackRestoresManifest ==
    CancelledCleanly
        => /\ get_current_version(repo) = get_current_version(pre.repo)
           /\ HeadTree(repo)[Manifest] = pre.repo.worktree[Manifest]
           /\ ReleaseTagName(NextVersion) \notin repo.tags
           /\ tag_name = ReleaseTagName(NextVersion)
           /\ exit_code = 0

C3_Witness ==
    /\ CancelledCleanly
    /\ Succeeded(NpmVersion, <<>>)
    /\ Succeeded(TagCreate, ReleaseTagName(NextVersion))
    /\ RolledBack
    /\ pre.repo.worktree[Manifest] = <<0, 9, 1>>

\* C4: in a run where the branch push failed, the tag push is not invoked.
C4_NoTagPushAfterFailedBranchPush ==
    Failed(Push) => ~Invoked(PushOrigin)

C4_Witness ==
    /\ Failed(Push)
    /\ Exited
    /\ exit_code = 1

\* C5: the process exits with status 0 if and only if both pushes succeeded
\* or the operator answered 'no' and the four rollback commands succeeded;
\* a run with a dirty tree or any failed external command exits non-zero.
C5_ExitZeroIffPublishedOrRolledBack ==
    Exited =>
        /\ exit_code = 0 <=> (Published \/ (response = No /\ RolledBack))
        /\ (\E i \in DOMAIN cmds : cmds[i].rc # 0) => exit_code # 0
        /\ ~Clean(pre.repo) => exit_code # 0

\* C6: when an external command exits non-zero, no further command is
\* invoked and the run terminates.
C6_EveryFailureIsFatal ==
    \A i \in DOMAIN cmds :
        cmds[i].rc # 0 => (i = Len(cmds) /\ Exited /\ exit_code # 0)

\* C7 as claimed: in every reachable state at most one of the native tag and
\* the release tag of the new version exists locally.
C7_AtMostOneTagAlways ==
    new_version # <<>>
        => ~(NpmTag(new_version) \in repo.tags
             /\ ReleaseTagName(new_version) \in repo.tags)

\* C7 as amended: at most one of the two tags exists locally in every state
\* of a run that started without the release tag of the new version, and in
\* every run once the release tag has been created; the release tag is
\* created only after the native tag has been deleted with success.
C7_AtMostOneTagAfterRemap ==
    /\ (ReleaseTagName(NextVersion) \notin pre.repo.tags
          \/ Succeeded(TagCreate, ReleaseTagName(NextVersion)))
        => ~(NpmTag(NextVersion) \in repo.tags
             /\ ReleaseTagName(NextVersion) \in repo.tags)
    /\ \A i \in DOMAIN cmds :
         cmds[i].op = TagCreate
            => \E j \in 1..(i - 1) :
                 cmds[j] = [op |-> TagDelete, arg |-> NpmTag(NextVersion),
                            rc |-> 0]

C7_Witness ==
    /\ pc = "confirm"
    /\ ReleaseTagName(NextVersion) \in repo.tags
    /\ NpmTag(NextVersion) \notin repo.tags
    /\ ReleaseTagName(NextVersion) \notin pre.repo.tags

\* C8: once the tag remap has completed, with v the version read from the
\* manifest after the bump: the release tag created is "release/v" + v, the
\* tag deleted is "v" + v, the tag the bump created, and "v" + v is no
\* longer a local tag.
C8_RemapProducesReleaseTag ==
    (\E i \in DOMAIN cmds : cmds[i].op = TagCreate /\ cmds[i].rc = 0)
        => /\ new_version = VersionString(repo.commits[pre.repo.head + 1][Manifest])
           /\ new_version = NextVersion
           /\ tag_name = <<"release/v">> \o new_version
           /\ \A i \in DOMAIN cmds :
                cmds[i].op = TagCreate => cmds[i].arg = <<"release/v">> \o new_version
           /\ \E i \in DOMAIN cmds :
                /\ cmds[i] = [op |-> TagDelete, arg |-> <<"v">> \o new_version,
                              rc |-> 0]
                /\ \A j \in 1..(i - 1) : cmds[j].op # TagDelete
           /\ (<<"v">> \o new_version) \notin repo.tags
           /\ pc = "confirm" => (<<"release/v">> \o new_version) \in repo.tags

C8_Witness ==
    /\ pc = "confirm"
    /\ new_version = <<"0", ".", "1", "0", ".", "0">>
    /\ tag_name = <<"release/v", "0", ".", "1", "0", ".", "0">>
    /\ tag_name \in repo.tags

\* the line input() returned in this step
LineRead == inputs'[Len(inputs')]

ReadsLine == pc = "confirm" /\ Len(inputs') = Len(inputs) + 1

GateFrame ==
    /\ repo' = repo
    /\ remote' = remote
    /\ cmds' = cmds
    /\ pc' = "confirm"
    /\ exit_code' = exit_code

\* C9 as claimed: at the gate, an input that is neither 'yes' nor 'no' in
\* any letter case changes nothing, invokes no command, and leads back to
\* the prompt.
C9_InvalidInputReprompts ==
    [][(ReadsLine /\ Lower(LineRead) \notin {Yes, No}) => GateFrame]_vars

\* C9 as amended: at the gate, an input that with the surrounding whitespace
\* removed is neither 'yes' nor 'no' in any letter case changes nothing,
\* invokes no command, and leads back to the prompt.
C9_InvalidStrippedInputReprompts ==
    [][(ReadsLine /\ Lower(Strip(LineRead)) \notin {Yes, No}) => GateFrame]_vars

C9_Witness ==
    /\ pc = "confirm"
    /\ Len(inputs) = 2
    /\ inputs[1] = <<"y">>
    /\ inputs[2] = <<"y", "e", "s", " ", "p", "l", "e", "a", "s", "e">>
    /\ repo.tags = {tag_name}

\* the stages of the nominal flow, in order
Stages == <<NpmVersion, TagDelete, TagCreate, Push, PushOrigin>>

IsRollback(i) ==
    \E k \in 1..(i - 1) : cmds[k].op = Reset

\* the position in cmds of the command of stage s, 0 when it was not invoked
StageAt(s) ==
    IF \E i \in DOMAIN cmds : cmds[i].op = Stages[s] /\ ~IsRollback(i)
    THEN CHOOSE i \in DOMAIN cmds : cmds[i].op = Stages[s] /\ ~IsRollback(i)
    ELSE 0

\* C10: the mutating commands are invoked in the order bump, native-tag
\* delete, release-tag create, confirmation, branch push, tag push, each at
\* most once and only after the earlier ones succeeded on a tree the
\* preflight found clean; with a clean tree, every command succeeding and
\* the answer 'yes', exactly this sequence is run and the exit status is 0.
C10_StagesInOrder ==
    /\ \A s \in DOMAIN Stages :
         StageAt(s) # 0 =>
            /\ Clean(pre.repo)
            /\ \A i \in DOMAIN cmds :
                 (cmds[i].op = Stages[s] /\ ~IsRollback(i)) => i = StageAt(s)
            /\ \A t \in 1..(s - 1) :
                 /\ StageAt(t) # 0
                 /\ StageAt(t) < StageAt(s)
                 /\ cmds[StageAt(t)].rc = 0
    /\ Invoked(Push) => response = Yes
    /\ (Exited /\ response = Yes /\ \A i \in DOMAIN cmds : cmds[i].rc = 0)
         => /\ exit_code = 0
            /\ [i \in DOMAIN cmds |-> cmds[i].op]
                 = <<RevParse, Status>> \o Stages

\* whether command i of the log is one of the four rollback commands
IsRollbackCmd(i) ==
    \/ cmds[i].op \in {Reset, Restore}
    \/ cmds[i].op = TagDelete /\ cmds[i].arg # NpmTag(NextVersion)

\* the bump commit is HEAD and its files are in the working tree
BumpInPlace ==
    /\ repo.head = pre.repo.head + 1
    /\ Len(repo.commits) = repo.head
    /\ repo.worktree = HeadTree(repo)
    /\ get_current_version(repo) = NextVersion

\* C12: a rollback command is invoked only after the operator answered 'no'
\* (bump and tag remap having succeeded); when the bump, a tag command or a
\* push fails, the run ends there with no rollback command invoked and what
\* the run had produced is still in the repository.
C12_RollbackOnlyOnNo ==
    /\ \A i \in DOMAIN cmds :
         IsRollbackCmd(i)
            => /\ response = No
               /\ Succeeded(NpmVersion, <<>>)
               /\ Succeeded(TagDelete, NpmTag(NextVersion))
               /\ Succeeded(TagCreate, tag_name)
               /\ ~Invoked(Push) /\ ~Invoked(PushOrigin)
    /\ \A i \in DOMAIN cmds :
         (cmds[i].rc # 0 /\ ~IsRollbackCmd(i)
            /\ cmds[i].op \notin {RevParse, Status})
            => /\ i = Len(cmds)
               /\ Exited
               /\ \A j \in DOMAIN cmds : ~IsRollbackCmd(j)
               /\ cmds[i].op # NpmVersion => BumpInPlace
               /\ cmds[i].op = NpmVersion => repo = pre.repo
               /\ cmds[i].op \in {Push, PushOrigin} => tag_name \in repo.tags

C12_Witness ==
    /\ Exited
    /\ Failed(TagCreate)
    /\ BumpInPlace
    /\ NpmTag(NextVersion) \notin repo.tags

\* the rollback commands in the order of the code
RollbackPlan ==
    << [op |-> Reset, arg |-> <<>>],
       [op |-> TagDelete, arg |-> tag_name],
       [op |-> Restore, arg |-> <<Manifest>>],
       [op |-> Restore, arg |-> <<Lockfile>>] >>

\* the commands invoked since the operator's answer
SinceGate ==
    IF \E i \in DOMAIN cmds : cmds[i].op = TagCreate
    THEN SubSeq(cmds,
                1 + (CHOOSE i \in DOMAIN cmds : cmds[i].op = TagCreate),
                Len(cmds))
    ELSE <<>>

Reported(line) == \E i \in DOMAIN out : out[i] = line

\* C13: after the answer 'no' the rollback commands run in the order reset,
\* release-tag delete, manifest restore, lockfile restore; the reset moves
\* HEAD back and keeps the working tree; a command runs only if the ones
\* before it succeeded; when one fails the run ends with a non-zero status
\* and "Changes rolled back." is not printed.
C13_RollbackInOrder ==
    response = No =>
        /\ Len(SinceGate) <= Len(RollbackPlan)
        /\ \A k \in DOMAIN SinceGate :
             /\ SinceGate[k].op = RollbackPlan[k].op
             /\ SinceGate[k].arg = RollbackPlan[k].arg
             /\ k < Len(SinceGate) => SinceGate[k].rc = 0
        /\ (Succeeded(Reset, <<>>) /\ ~Invoked(Restore))
             => /\ repo.head = pre.repo.head
                /\ repo.worktree = repo.commits[pre.repo.head + 1]
        /\ (\E k \in DOMAIN SinceGate : SinceGate[k].rc # 0)
             => /\ Exited
                /\ exit_code = 1
                /\ ~Reported(<<"Changes rolled back.">>)
        /\ Reported(<<"Changes rolled back.">>)
             => /\ Len(SinceGate) = Len(RollbackPlan)
                /\ \A k \in DOMAIN SinceGate : SinceGate[k].rc = 0
                /\ exit_code = 0

C13_Witness ==
    /\ Exited
    /\ response = No
    /\ Len(SinceGate) = 3
    /\ SinceGate[3] = [op |-> Restore, arg |-> <<Manifest>>, rc |-> 1]
    /\ tag_name \notin repo.tags

\* the bump commit is on the remote branch
BumpCommitOnRemote ==
    /\ Len(remote.branch) = pre.repo.head + 1
    /\ Len(repo.commits) >= pre.repo.head + 1
    /\ remote.branch[pre.repo.head + 1] = repo.commits[pre.repo.head + 1]

\* C14: the release tag is on the remote only if the bump commit is on the
\* remote; when the branch push succeeded and the tag push failed, the run
\* has ended with the bump commit on the remote, the release tag not on it,
\* and the tag push invoked once.
C14_TagOnRemoteOnlyWithCommit ==
    /\ ReleaseTagName(NextVersion) \in remote.tags => BumpCommitOnRemote
    /\ (Succeeded(Push, <<>>) /\ Failed(PushOrigin))
         => /\ Exited
            /\ exit_code = 1
            /\ BumpCommitOnRemote
            /\ tag_name \notin remote.tags
            /\ cmds[Len(cmds)].op = PushOrigin
            /\ \A i \in 1..(Len(cmds) - 1) : cmds[i].op # PushOrigin

C14_Witness ==
    /\ Succeeded(Push, <<>>)
    /\ Failed(PushOrigin)
    /\ BumpCommitOnRemote
    /\ tag_name \notin remote.tags

\* C17 as claimed: a line read at the gate leads to the pushes if and only
\* if it is 'yes' in some letter case, to the rollback if and only if it is
\* 'no' in some letter case, and every other line, a token with surrounding
\* whitespace included, leads back to the prompt.
C17_ExactlyTwoTokens ==
    [][ReadsLine
        => /\ (pc' = "push_commit") <=> (Lower(LineRead) = Yes)
           /\ (pc' = "reset") <=> (Lower(LineRead) = No)
           /\ (pc' = "confirm") <=> (Lower(LineRead) \notin {Yes, No})]_vars

\* C17 as amended: a line read at the gate leads to the pushes if and only
\* if, with the surrounding whitespace removed, it is 'yes' in some letter
\* case, to the rollback if and only if it is then 'no' in some letter case,
\* and to the prompt again otherwise.
C17_ExactlyTwoStrippedTokens ==
    [][ReadsLine
        => /\ (pc' = "push_commit") <=> (Lower(Strip(LineRead)) = Yes)
           /\ (pc' = "reset") <=> (Lower(Strip(LineRead)) = No)
           /\ (pc' = "confirm") <=> (Lower(Strip(LineRead)) \notin {Yes, No})
           /\ cmds' = cmds /\ repo' = repo /\ remote' = remote]_vars

C17_Witness ==
    /\ pc = "push_commit"
    /\ inputs = << <<"n">>, <<"Y", "E", "S">> >>
    /\ response = Yes
    /\ ~Invoked(Push)

\* whether the bump commit changed a file other than the manifest and the
\* lockfile
BumpTouchedOther ==
    /\ Len(repo.commits) > pre.repo.head
    /\ repo.commits[pre.repo.head + 1][OtherFile] # pre.repo.worktree[OtherFile]

\* C18: after a cancelled run whose commands all succeeded, HEAD, the
\* branch's commits and the tag set are those before the run and neither
\* tag of the new version exists; when the bump changed only the manifest
\* and the lockfile the working tree is the one before the run and clean, so
\* that the preflight of a next run passes; when the bump changed another
\* file the working tree is dirty although the run reported the rollback
\* and exited with status 0.
C18_CancelRestoresRepository ==
    CancelledCleanly
        => /\ repo.head = pre.repo.head
           /\ SubSeq(repo.commits, 1, repo.head)
                = SubSeq(pre.repo.commits, 1, pre.repo.head)
           /\ repo.tags = pre.repo.tags
           /\ NpmTag(NextVersion) \notin repo.tags
           /\ ReleaseTagName(NextVersion) \notin repo.tags
           /\ exit_code = 0
           /\ Reported(<<"Changes rolled back.">>)
           /\ ~BumpTouchedOther
                => /\ repo.worktree = pre.repo.worktree
                   /\ Clean(repo)
                   /\ ~Uncommitted(Porcelain(repo))
           /\ BumpTouchedOther
                => /\ ~Clean(repo)
                   /\ Uncommitted(Porcelain(repo))
                   /\ repo.worktree[OtherFile] # pre.repo.worktree[OtherFile]

C18_Witness ==
    /\ CancelledCleanly
    /\ BumpTouchedOther
    /\ ~Clean(repo)
    /\ exit_code = 0

\* C19: when the read at the gate ends without a line, the run is over with
\* status 1, the step invokes no command, the bump commit and the release
\* tag are still in the local repository, the remote is as before the run,
\* and the log holds neither a rollback command nor a push.
C19_AbortedReadLeavesRelease ==
    [][(pc = "confirm" /\ inputs' = inputs)
        => /\ pc' = "done"
           /\ exit_code' = 1
           /\ cmds' = cmds
           /\ repo' = repo
           /\ remote' = remote
           /\ BumpInPlace'
           /\ tag_name' \in repo'.tags
           /\ tag_name' = ReleaseTagName(NextVersion)
           /\ remote' = pre.remote
           /\ \A i \in DOMAIN cmds' :
                ~IsRollbackCmd(i)' /\ cmds'[i].op \notin {Push, PushOrigin}]_vars

C19_Witness ==
    /\ Exited
    /\ exit_code = 1
    /\ Succeeded(TagCreate, tag_name)
    /\ cmds[Len(cmds)].op = TagCreate
    /\ inputs = << <<"y">> >>
    /\ BumpInPlace
    /\ tag_name \in repo.tags
    /\ remote = pre.remote

\* C16: a run either ends or stays at the gate for ever, the gate being the
\* only place where it can wait; once the operator has answered 'yes' or
\* 'no' the run ends; and the gate is left only with such an answer or when
\* the read itself ends, so that with invalid lines alone the run stays at
\* the gate.
C16_OnlyTheGateWaits ==
    /\ <>Exited \/ <>[](pc = "confirm")
    /\ <>(response \in {Yes, No}) => <>Exited
    /\ [][(pc = "confirm" /\ pc' # "confirm")
            => \/ ReadsLine /\ Lower(Strip(LineRead)) \in {Yes, No}
               \/ inputs' = inputs /\ pc' = "done"]_vars

C16_Witness ==
    /\ Exited
    /\ response = Yes
    /\ inputs = << <<"y">>, <<"y", "e", "s">> >>
    /\ Succeeded(PushOrigin, tag_name)

\* the operations with an effect on the repository or the remote
SideEffecting(i) == cmds[i].op \notin {RevParse, Status}

\* C15: the last line printed before a side-effecting command is printed
\* for that command alone: within a run no two side-effecting commands have
\* the same last line before them, so the last line before a failure tells
\* which command failed.
C15_MarkersDistinct ==
    \A i, j \in DOMAIN cmds :
        (i < j /\ SideEffecting(i) /\ SideEffecting(j))
            => marks[i] # marks[j]

\* ------------------------------------------- one script after the other
Other(s) == IF s = "release.py" THEN "create_new_release.py" ELSE "release.py"

\* the commands of a log that change the repository or the remote
MutatingCmds(log) == SelectSeq(log, LAMBDA c : c.op \notin {RevParse, Status})

SameCommands(a, b) ==
    /\ Len(a) = Len(b)
    /\ \A i \in DOMAIN a : a[i].op = b[i].op /\ a[i].arg = b[i].arg

OutcomeClass ==
    IF Published THEN "published"
    ELSE IF RolledBack THEN "rolled back"
    ELSE "failed"

ReachedGate == \E i \in DOMAIN cmds : cmds[i].op = TagCreate /\ cmds[i].rc = 0

GateAborted == Exited /\ ReachedGate /\ cmds[Len(cmds)].op = TagCreate

\* the run is over: the other script is started in the repository, against
\* the remote, the run began with
RestartOther ==
    /\ pc = "done"
    /\ first = <<>>
    /\ first' = << [cmds |-> cmds,
                    inputs |-> inputs,
                    gate |-> ReachedGate,
                    aborted |-> GateAborted,
                    bump |-> IF Len(repo.commits) > pre.repo.head
                             THEN <<repo.commits[pre.repo.head + 1]>>
                             ELSE <<>>,
                    exit_code |-> exit_code,
                    outcome |-> OutcomeClass] >>
    /\ script' = Other(script)
    /\ pc' = "branch"
    /\ repo' = pre.repo
    /\ remote' = pre.remote
    /\ stdout' = <<>>
    /\ new_version' = <<>>
    /\ npm_tag' = <<>>
    /\ tag_name' = <<>>
    /\ response' = <<>>
    /\ inputs' = <<>>
    /\ cmds' = <<>>
    /\ marks' = <<>>
    /\ out' = << <<"VSCode Array Inspector - Release Script">> >>
    /\ exit_code' = -1
    /\ UNCHANGED pre

\* the second run meets what the first met: a command the first run invoked
\* ends with the same exit code, the bump writes the same files, input()
\* returns the same lines and ends where it ended
Follows ==
    first # <<>> =>
    LET f == first[1]
    IN /\ cmds' # cmds
            => LET c == cmds'[Len(cmds')]
               IN /\ \A i \in DOMAIN f.cmds :
                       (f.cmds[i].op = c.op /\ f.cmds[i].arg = c.arg)
                          => c.rc = f.cmds[i].rc
                  /\ (c.op = NpmVersion /\ c.rc = 0 /\ f.bump # <<>>)
                       => repo'.commits[Len(repo'.commits)] = f.bump[1]
       /\ (pc = "confirm" /\ f.gate)
            => IF inputs' # inputs
               THEN /\ Len(inputs') <= Len(f.inputs)
                    /\ inputs'[Len(inputs')] = f.inputs[Len(inputs')]
               ELSE f.aborted /\ Len(inputs) = Len(f.inputs)

NextPair ==
    \/ QueryBranch /\ Follows
    \/ CheckUncommitted /\ Follows
    \/ BumpVersion /\ Follows
    \/ DeleteNpmTag /\ Follows
    \/ CreateReleaseTag /\ Follows
    \/ ReadResponse /\ Follows
    \/ ReadAborted /\ Follows
    \/ ResetCommit /\ Follows
    \/ DeleteReleaseTag /\ Follows
    \/ RestoreManifest /\ Follows
    \/ RestoreLockfile /\ Follows
    \/ PushCommit /\ Follows
    \/ PushTag /\ Follows
    \/ RestartOther

SpecPair == Init /\ [][NextPair]_vars

\* C11: when the other script has run from the same start, with the same
\* outcomes of the commands and the same operator input, as a first run, the
\* two runs invoked the same repository-mutating commands in the same order
\* (same kind, same tag and file arguments) and ended in the same outcome
\* class, with an exit status zero in both or non-zero in both.
C11_ScriptsEquivalent ==
    (first # <<>> /\ Exited)
        => /\ SameCommands(MutatingCmds(cmds), MutatingCmds(first[1].cmds))
           /\ OutcomeClass = first[1].outcome
           /\ (exit_code = 0) <=> (first[1].exit_code = 0)

=============================================================================
